---- MODULE Spec2Model ----
(***************************************************************************)
(* forkdiff (src/main.go): the patch index, the remaining set and the      *)
(* template functions expandGlob / renderPatch / remainingPatches, driven  *)
(* by the page template's walk over the section tree.                      *)
(*                                                                         *)
(* Strings are sequences of one-character strings, so that glob matching   *)
(* and sort.Strings are computed character by character.                   *)
(***************************************************************************)
EXTENDS Naturals, Sequences, FiniteSets

\* ------------------------------------------------------------------ bounds
\* most FilePatches in the computed patch
MaxChanges == 2
\* most expandGlob calls the section tree makes in one run
MaxGlobCalls == 2

\* ------------------------------------------------------------- characters
\* byte values of the characters used (sort.Strings and class ranges compare bytes)
Code ==
  [c \in {"*", "-", "/", "?", "[", "]", "^", "a", "b"} |->
     CASE c = "*" -> 42 [] c = "-" -> 45 [] c = "/" -> 47 [] c = "?" -> 63
       [] c = "[" -> 91 [] c = "]" -> 93 [] c = "^" -> 94 [] c = "a" -> 97
       [] c = "b" -> 98]

\* filepath.Separator on the platforms where paths of a git tree are matched
Separator == "/"

Nil == <<>>

\* ---------------------------------------------------------- input universes
\* names a top-level entry of the target tree can have (no separator in a name)
Names == { <<"a">>, <<"a", "b">>, <<"b">> }

\* paths a file patch can carry: top-level files and a nested file
PatchPaths == { <<"a">>, <<"b">>, <<"a", "/", "b">> }

\* glob patterns a section can declare, without backslash escapes; "[" and "*["
\* are malformed
Globs == { <<"*">>, <<"a", "*">>, <<"?">>, <<"[", "^", "a", "]">>,
           <<"[", "a", "-", "b", "]">>, <<"[">>, <<"*", "[">> }

\* a FilePatch as far as main reads it: fp.Files() gives (from, to), Nil when absent
FileChanges ==
  { c \in [from : PatchPaths \cup {Nil}, to : PatchPaths \cup {Nil}] :
      c.from # Nil \/ c.to # Nil }

\* ----------------------------------------------------------- byte ordering
RECURSIVE StrLessFrom(_, _, _)
StrLessFrom(s, t, i) ==
  IF i > Len(s) THEN i <= Len(t)
  ELSE IF i > Len(t) THEN FALSE
  ELSE IF Code[s[i]] < Code[t[i]] THEN TRUE
  ELSE IF Code[s[i]] > Code[t[i]] THEN FALSE
  ELSE StrLessFrom(s, t, i + 1)

\* s < t as Go compares strings
StrLess(s, t) == StrLessFrom(s, t, 1)

\* insert x into the sorted sequence q, after the elements not greater than x
RECURSIVE InsertSorted(_, _)
InsertSorted(x, q) ==
  IF q = <<>> THEN <<x>>
  ELSE IF StrLess(x, Head(q)) THEN <<x>> \o q
  ELSE <<Head(q)>> \o InsertSorted(x, Tail(q))

\* a sort that only copies its input: the sequence is left in the order given
RECURSIVE NoSort(_)
NoSort(q) == IF q = <<>> THEN <<>> ELSE <<Head(q)>> \o NoSort(Tail(q))

\* sort.Strings(out)
RECURSIVE SortStrings(_)
SortStrings(q) ==
  IF q = <<>> THEN <<>> ELSE InsertSorted(Head(q), SortStrings(Tail(q)))

\* the orders in which a range over a Go map with key set S can visit the keys
IterationOrders(S) ==
  { q \in [1..Cardinality(S) -> S] : \A i, j \in 1..Cardinality(S) : q[i] = q[j] => i = j }

\* --------------------------------------------------------- filepath.Match
\* parse the ranges of a character class of pattern p from position j, matching
\* character c ("" once the match has failed or the name is exhausted);
\* err is ErrBadPattern, next is the position after the closing bracket
RECURSIVE ClassRanges(_, _, _, _, _)
ClassRanges(p, j, nrange, c, matched) ==
  IF j <= Len(p) /\ p[j] = "]" /\ nrange > 0
    THEN [err |-> FALSE, next |-> j + 1, match |-> matched]
  ELSE IF j > Len(p) \/ p[j] = "-" \/ p[j] = "]" \/ j + 1 > Len(p)
    THEN [err |-> TRUE, next |-> 0, match |-> FALSE]
  ELSE IF p[j + 1] = "-"
    THEN IF j + 2 > Len(p) \/ p[j + 2] = "-" \/ p[j + 2] = "]" \/ j + 3 > Len(p)
           THEN [err |-> TRUE, next |-> 0, match |-> FALSE]
           ELSE ClassRanges(p, j + 3, nrange + 1, c,
                            matched \/ (c # "" /\ Code[p[j]] <= Code[c]
                                               /\ Code[c] <= Code[p[j + 2]]))
  ELSE ClassRanges(p, j + 1, nrange + 1, c, matched \/ (c # "" /\ c = p[j]))

\* the character class that opens at p[i] = "[", matched against character c
Class(p, i, c) ==
  LET negated == i + 1 <= Len(p) /\ p[i + 1] = "^"
      r == ClassRanges(p, IF negated THEN i + 2 ELSE i + 1, 0, c, FALSE)
  IN [err |-> r.err, next |-> r.next, match |-> (r.match # negated)]

\* the pattern is malformed from position i on (Match returns ErrBadPattern)
RECURSIVE BadFrom(_, _)
BadFrom(p, i) ==
  IF i > Len(p) THEN FALSE
  ELSE IF p[i] = "[" THEN LET r == Class(p, i, "") IN r.err \/ BadFrom(p, r.next)
  ELSE BadFrom(p, i + 1)

BadPattern(p) == BadFrom(p, 1)

\* a well-formed pattern from position i matches the name from position k
RECURSIVE MatchFrom(_, _, _, _)
MatchFrom(p, i, s, k) ==
  IF i > Len(p) THEN k > Len(s)
  ELSE IF p[i] = "*"
    THEN MatchFrom(p, i + 1, s, k)
         \/ (k <= Len(s) /\ s[k] # Separator /\ MatchFrom(p, i, s, k + 1))
  ELSE IF k > Len(s) THEN FALSE
  ELSE IF p[i] = "?" THEN s[k] # Separator /\ MatchFrom(p, i + 1, s, k + 1)
  ELSE IF p[i] = "["
    THEN LET r == Class(p, i, s[k]) IN r.match /\ MatchFrom(p, r.next, s, k + 1)
  ELSE p[i] = s[k] /\ MatchFrom(p, i + 1, s, k + 1)

\* filepath.Match(pattern, name): (matched, err); a malformed pattern is reported
\* for every name, whether or not the name would have matched up to the error
\* (the behaviour of Match since Go 1.16; main.go needs Go 1.18 for `any`)
Match(pattern, name) ==
  IF BadPattern(pattern) THEN [ok |-> FALSE, err |-> TRUE]
  ELSE [ok |-> MatchFrom(pattern, 1, name, 1), err |-> FALSE]


\* ------------------------------------------------------------------- state
VARIABLES
  pc,           \* where main is: "start", "patched", "indexed", "exec", "done", "failed"
  err,          \* the error that ended the run, "" while there is none
  entries,      \* targetTree.Entries: the names of the target tree's top-level entries
  changes,      \* forkPatch.FilePatches()
  patchByName,  \* map from path to FilePatch
  remaining,    \* key set of the map `remaining`
  glob,         \* the pattern of the latest expandGlob call, Nil before the first
  calls,        \* number of expandGlob calls made so far
  todo,         \* paths returned by the latest expandGlob and not yet rendered
  claimed,      \* paths the section being rendered has claimed, in order
  claimedAll,   \* paths claimed by at least one section so far
  out           \* what has been written to the output file, in order

vars == <<pc, err, entries, changes, patchByName, remaining, glob, calls, todo,
          claimed, claimedAll, out>>

\* ----------------------------------------------------------------- helpers
Range(q) == { q[i] : i \in 1..Len(q) }

\* the top-level entry a path lies under
RECURSIVE TopName(_)
TopName(path) ==
  IF path = <<>> \/ Head(path) = Separator THEN <<>>
  ELSE <<Head(path)>> \o TopName(Tail(path))

\* a git tree lists its entries sorted by name, each name once
EntryListings == { SortStrings(q) : q \in UNION { IterationOrders(S) : S \in SUBSET Names } }

\* the patches a diff against a target tree with these entries can hold: a file
\* that exists in the target lies under one of the target's top-level entries
ChangeLists(es) ==
  { q \in UNION { [1..n -> FileChanges] : n \in 0..MaxChanges } :
      \A i \in 1..Len(q) : q[i].to # Nil => TopName(q[i].to) \in Range(es) }

\* m[k] = v, as a Go map assignment
Put(m, k, v) == [x \in (DOMAIN m) \cup {k} |-> IF x = k THEN v ELSE m[x]]

\* the key under which main stores a file patch
CanonicalPath(fp) == IF fp.to # Nil THEN fp.to ELSE fp.from

\* an index in which the first patch of a path is kept and later ones are dropped
RECURSIVE FirstWins(_)
FirstWins(fps) ==
  IF fps = <<>> THEN <<>>
  ELSE LET m == FirstWins(SubSeq(fps, 1, Len(fps) - 1))
           fp == fps[Len(fps)]
       IN IF CanonicalPath(fp) \in DOMAIN m THEN m ELSE Put(m, CanonicalPath(fp), fp)

\* the loop that fills patchByName, in the order of FilePatches()
RECURSIVE BuildPatchByName(_)
BuildPatchByName(fps) ==
  IF fps = <<>> THEN <<>>
  ELSE Put(BuildPatchByName(SubSeq(fps, 1, Len(fps) - 1)),
           CanonicalPath(fps[Len(fps)]), fps[Len(fps)])

\* enc.Encode writes into a bytes.Buffer, whose Write never returns an error
EncodeErr(p) == FALSE

\* the rendered diff of a file patch
Rendered(p) == [kind |-> "patch", patch |-> p]

\* renderPatch that takes a path out of `remaining` when it is there and puts it
\* back when it is not
renderPatchToggle(path) ==
  IF path \notin DOMAIN patchByName
    THEN [err |-> "failed to find file patch", html |-> Nil, remaining |-> remaining]
    ELSE [err |-> "", html |-> Rendered(patchByName[path]),
          remaining |-> IF path \in remaining THEN remaining \ {path}
                        ELSE remaining \cup {path}]

\* renderPatch that looks the path up in `remaining` instead of patchByName
renderPatchOnce(path) ==
  IF path \notin remaining
    THEN [err |-> "failed to find file patch", html |-> Nil, remaining |-> remaining]
    ELSE [err |-> "", html |-> Rendered(patchByName[path]),
          remaining |-> remaining \ {path}]

\* renderPatch without the delete
renderPatchKeep(path) ==
  IF path \notin DOMAIN patchByName
    THEN [err |-> "failed to find file patch", html |-> Nil, remaining |-> remaining]
    ELSE [err |-> "", html |-> Rendered(patchByName[path]), remaining |-> remaining]

\* the template function renderPatch: the (string, error) it returns and the
\* `remaining` it leaves behind
renderPatch(path) ==
  IF path \notin DOMAIN patchByName
    THEN [err |-> "failed to find file patch", html |-> Nil, remaining |-> remaining]
  ELSE IF EncodeErr(patchByName[path])
    THEN [err |-> "encode", html |-> Nil, remaining |-> remaining]
  ELSE [err |-> "", html |-> Rendered(patchByName[path]),
        remaining |-> remaining \ {path}]

\* remainingPatches that returns the keys in the order the map yields them
remainingPatchesUnsorted(order) == NoSort(order)

\* the template function remainingPatches; `order` is the order in which the
\* range over the map `remaining` visits its keys
remainingPatches(order) == SortStrings(order)

\* the loop of expandGlob over the listing es, first entry first: the first
\* entry whose Match reports an error ends it with that error
RECURSIVE GlobLoop(_, _)
GlobLoop(globPattern, es) ==
  IF es = <<>> THEN [err |-> "", out |-> <<>>]
  ELSE LET m == Match(globPattern, es[Len(es)])
           r == GlobLoop(globPattern, SubSeq(es, 1, Len(es) - 1))
       IN IF r.err # "" THEN r
          ELSE IF m.err THEN [err |-> "failed to glob match entry", out |-> Nil]
          ELSE IF m.ok THEN [err |-> "", out |-> Append(r.out, es[Len(es)])]
          ELSE r

\* the same loop appending every entry, matched or not
RECURSIVE GlobLoopAll(_, _)
GlobLoopAll(globPattern, es) ==
  IF es = <<>> THEN [err |-> "", out |-> <<>>]
  ELSE LET m == Match(globPattern, es[Len(es)])
           r == GlobLoopAll(globPattern, SubSeq(es, 1, Len(es) - 1))
       IN IF r.err # "" THEN r
          ELSE IF m.err THEN [err |-> "failed to glob match entry", out |-> Nil]
          ELSE [err |-> "", out |-> Append(r.out, es[Len(es)])]

\* expandGlob that appends every entry of the target tree, matched or not
expandGlobAll(globPattern) == GlobLoopAll(globPattern, entries)

\* expandGlob that matches the pattern against the paths of the patches
expandGlobPatches(globPattern) ==
  GlobLoop(globPattern, SortStrings(CHOOSE q \in IterationOrders(DOMAIN patchByName) : TRUE))

\* the template function expandGlob, over targetTree.Entries: (out, err)
expandGlob(globPattern) == GlobLoop(globPattern, entries)

\* ----------------------------------------------------------------- actions
Init ==
  /\ pc = "start"
  /\ err = ""
  /\ entries = <<>>
  /\ changes = <<>>
  /\ patchByName = <<>>
  /\ remaining = {}
  /\ glob = Nil
  /\ calls = 0
  /\ todo = <<>>
  /\ claimed = <<>>
  /\ claimedAll = {}
  /\ out = <<>>

\* must(err, ...) with a non-nil error: message to stderr, os.Exit(1)
Fatal(e) ==
  /\ pc' = "failed"
  /\ err' = e

\* the page definition, the repository, both references, commits and trees and
\* the patch between the trees are all obtained
Startup ==
  /\ pc = "start"
  /\ \E es \in EntryListings : \E fps \in ChangeLists(es) :
       /\ entries' = es
       /\ changes' = fps
  /\ pc' = "patched"
  /\ UNCHANGED <<err, patchByName, remaining, glob, calls, todo, claimed, claimedAll, out>>

\* one of them fails: the page definition, the repository, a reference, a
\* commit, a tree or the patch
StartupFails ==
  /\ pc = "start"
  /\ \E e \in {"failed to read page definition", "failed to find base git ref",
               "failed to find target git ref"} : Fatal(e)
  /\ UNCHANGED <<entries, changes, patchByName, remaining, glob, calls, todo, claimed,
                 claimedAll, out>>

\* patchByName is filled from the file patches and `remaining` from its keys
BuildIndex ==
  /\ pc = "patched"
  /\ patchByName' = BuildPatchByName(changes)
  /\ remaining' = DOMAIN BuildPatchByName(changes)
  /\ pc' = "indexed"
  /\ UNCHANGED <<err, entries, changes, glob, calls, todo, claimed, claimedAll, out>>

\* the template is parsed and the output file opened
OpenOutput ==
  /\ pc = "indexed"
  /\ pc' = "exec"
  /\ UNCHANGED <<err, entries, changes, patchByName, remaining, glob, calls, todo, claimed,
                 claimedAll, out>>

OpenOutputFails ==
  /\ pc = "indexed"
  /\ \E e \in {"failed to parse page template", "failed to open output file"} : Fatal(e)
  /\ UNCHANGED <<entries, changes, patchByName, remaining, glob, calls, todo, claimed,
                 claimedAll, out>>

\* the template starts on the next section node (a child, a sibling or a node of
\* another branch): its claimed sequence starts empty
BeginSection ==
  /\ pc = "exec"
  /\ todo = <<>>
  /\ claimed' = <<>>
  /\ UNCHANGED <<pc, err, entries, changes, patchByName, remaining, glob, calls, todo,
                 claimedAll, out>>

\* the template calls expandGlob on the next pattern of the section; an error
\* returned by a template function ends ExecuteTemplate, and must exits
ExpandGlob ==
  /\ pc = "exec"
  /\ todo = <<>>
  /\ calls < MaxGlobCalls
  /\ \E g \in Globs :
       LET r == expandGlob(g) IN
         /\ glob' = g
         /\ calls' = calls + 1
         /\ IF r.err # ""
              THEN Fatal(r.err) /\ todo' = todo
              ELSE todo' = r.out /\ UNCHANGED <<pc, err>>
  /\ UNCHANGED <<entries, changes, patchByName, remaining, claimed, claimedAll, out>>

\* the template calls renderPatch on the next path expandGlob returned and
\* writes the result to the output; an error ends the run
RenderPatch ==
  /\ pc = "exec"
  /\ todo # <<>>
  /\ LET path == Head(todo)
         r == renderPatch(path)
     IN IF r.err # ""
          THEN /\ Fatal(r.err)
               /\ UNCHANGED <<todo, remaining, claimed, claimedAll, out>>
          ELSE /\ remaining' = r.remaining
               /\ out' = Append(out, r.html)
               /\ claimed' = Append(claimed, path)
               /\ claimedAll' = claimedAll \cup {path}
               /\ todo' = Tail(todo)
               /\ UNCHANGED <<pc, err>>
  /\ UNCHANGED <<entries, changes, patchByName, glob, calls>>

\* after the last section the template lists remainingPatches and ends
ListRemaining ==
  /\ pc = "exec"
  /\ todo = <<>>
  /\ \E order \in IterationOrders(remaining) :
       out' = Append(out, [kind |-> "remaining", paths |-> remainingPatches(order)])
  /\ pc' = "done"
  /\ UNCHANGED <<err, entries, changes, patchByName, remaining, glob, calls, todo, claimed,
                 claimedAll>>

Next ==
  \/ Startup
  \/ StartupFails
  \/ BuildIndex
  \/ OpenOutput
  \/ OpenOutputFails
  \/ BeginSection
  \/ ExpandGlob
  \/ RenderPatch
  \/ ListRemaining

Spec == Init /\ [][Next]_vars

\* ------------------------------------------------------------------ claims
Keys == DOMAIN patchByName

\* the canonical path of a file change: newPath when present, oldPath otherwise
NewElseOld(fp) == IF fp.to # Nil THEN fp.to ELSE fp.from

\* the position of the last file patch whose canonical path is k
LastOf(k) ==
  CHOOSE i \in 1..Len(changes) :
    /\ NewElseOld(changes[i]) = k
    /\ \A j \in (i + 1)..Len(changes) : NewElseOld(changes[j]) # k

\* the run is in or past the execution of the template without a fatal error
Resolving == pc \in {"exec", "done"}

\* the step taken is a renderPatch call on the path at the head of todo
RenderStep == pc = "exec" /\ todo # <<>>

\* the latest expandGlob call was made with a pattern that matches no entry
NoEntryMatches(g) == \A i \in 1..Len(entries) : ~MatchFrom(g, 1, entries[i], 1)

\* C1: once the section tree is resolved without a fatal error, the keys of
\* patchByName are partitioned into `remaining` and the paths claimed by at
\* least one section: no key is lost, none is in both, and the sizes add up.
CoverageConservation ==
  pc = "done" =>
    /\ remaining \cup claimedAll = Keys
    /\ remaining \cap claimedAll = {}
    /\ Cardinality(remaining) + Cardinality(claimedAll) = Cardinality(Keys)

CoverageWitness ==
  /\ pc = "done"
  /\ remaining # {}
  /\ claimedAll # {}

\* C2: `remaining` starts as the key set of patchByName; afterwards no step adds
\* a path to it or makes it larger, and a path that has been claimed is never in
\* it again.
Monotonicity ==
  [][ /\ pc = "patched" => remaining' = DOMAIN patchByName'
      /\ pc \notin {"start", "patched"} =>
           /\ remaining' \subseteq remaining
           /\ Cardinality(remaining') <= Cardinality(remaining)
      /\ claimedAll \cap remaining' = {}
      /\ claimedAll' \cap remaining' = {} ]_vars

MonotonicityWitness ==
  /\ pc = "exec"
  /\ claimedAll # {}
  /\ remaining # {}
  /\ \E i, j \in 1..Len(out) : i < j /\ out[i] = out[j]

\* C3: a glob match on an entry name that is no key of patchByName raises no
\* error: no run ends with the error of a failed patch lookup.
LookupMissNotFatal == err # "failed to find file patch"

\* C4: no run goes on after an expandGlob call with a malformed pattern: the
\* call ends the run with an error, whatever the target listing holds.
InvalidGlobFatal == (glob # Nil /\ BadPattern(glob)) => pc = "failed"

\* C5: a run that ended with a fatal error has written nothing to the output.
NoPartialReport == pc = "failed" => out = <<>>

\* C6: a renderPatch call on a path that a section has already claimed raises no
\* error, appends the path to the calling section's claimed sequence and leaves
\* `remaining` as it was, without the path.
DuplicateClaim ==
  [][ (RenderStep /\ Head(todo) \in claimedAll) =>
        /\ pc' = "exec"
        /\ err' = ""
        /\ remaining' = remaining
        /\ Head(todo) \notin remaining'
        /\ claimed' = Append(claimed, Head(todo))
        /\ out' = Append(out, Rendered(patchByName[Head(todo)])) ]_vars

DuplicateClaimWitness ==
  /\ Resolving
  /\ \E i, j \in 1..Len(out) : i < j /\ out[i].kind = "patch" /\ out[i] = out[j]
  /\ claimed # <<>>
  /\ claimed[Len(claimed)] \notin remaining

\* C7: at any point of the run, whatever order the map yields its keys in,
\* remainingPatches returns the keys of `remaining`, each once, in strictly
\* increasing byte order; so any two orders give the same sequence.
RemainingDeterministic ==
  \A o1 \in IterationOrders(remaining) :
    LET r == remainingPatches(o1) IN
      /\ Range(r) = remaining
      /\ Len(r) = Cardinality(remaining)
      /\ \A i \in 1..(Len(r) - 1) : StrLess(r[i], r[i + 1])
      /\ \A o2 \in IterationOrders(remaining) : remainingPatches(o2) = r
      /\ pc = "done" => out[Len(out)] = [kind |-> "remaining", paths |-> r]

RemainingWitness ==
  /\ pc = "done"
  /\ calls > 0
  /\ Cardinality(remaining) >= 2
  /\ Len(out[Len(out)].paths) >= 2

\* C8: an expandGlob call with a well-formed pattern that matches no entry of the
\* target listing returns the empty sequence without error: the run goes on, the
\* section's claimed sequence, `remaining` and patchByName are as before.
GlobIsolation ==
  [][ (calls' = calls + 1 /\ ~BadPattern(glob') /\ NoEntryMatches(glob')) =>
        /\ pc' = "exec"
        /\ err' = ""
        /\ todo' = <<>>
        /\ claimed' = claimed
        /\ claimedAll' = claimedAll
        /\ remaining' = remaining
        /\ patchByName' = patchByName ]_vars

GlobIsolationWitness ==
  /\ pc = "exec"
  /\ calls > 0
  /\ entries # <<>>
  /\ remaining # {}
  /\ ~BadPattern(glob)
  /\ NoEntryMatches(glob)
  /\ todo = <<>>
  /\ claimed = <<>>

\* C9: once built, patchByName has exactly one entry per canonical path of the
\* file patches, the one of the last file patch with that canonical path, and no
\* later step (a lookup, a claim) changes it.
IndexConstruction ==
  pc \notin {"start", "patched"} =>
    /\ Keys = { NewElseOld(changes[i]) : i \in 1..Len(changes) }
    /\ \A k \in Keys : patchByName[k] = changes[LastOf(k)]

IndexWitness ==
  /\ pc = "exec"
  /\ claimedAll # {}
  /\ \E i, j \in 1..Len(changes) :
       /\ i < j
       /\ NewElseOld(changes[i]) = NewElseOld(changes[j])
       /\ changes[i] # changes[j]
       /\ NewElseOld(changes[i]) \in claimedAll

\* C10: a key of patchByName that is not the name of a top-level entry of the
\* target tree is never claimed by a section and is in `remaining` when the
\* resolution has completed.
UnreachableStayUnclaimed ==
  \A k \in Keys :
    k \notin Range(entries) =>
      /\ k \notin claimedAll
      /\ k \notin Range(claimed)
      /\ Resolving => k \in remaining

UnreachableWitness ==
  /\ pc = "done"
  /\ claimedAll # {}
  /\ \E k \in Keys : k \notin Range(entries)

====
